---- MODULE Spec2Model ----
(***************************************************************************)
(* A model of GraphitePusher (src/graphite_pusher.hpp): the mutex-guarded  *)
(* sample queue, the producers calling push_sample, the detached           *)
(* dispatcher thread (GraphitePusher::thread) with its connect / drain /   *)
(* encode / send / requeue / sleep cycle, the caller's start / stop /      *)
(* shutdown, and the pickle encoder build_message.                         *)
(*                                                                         *)
(* Byte strings (paths, messages) are run-length encoded: a sequence of    *)
(* runs <<b, n>>, n >= 1 copies of byte b, so that paths and payloads of   *)
(* 2^24 bytes and more are representable.  Sizes (uint64_t, size_t) are    *)
(* natural numbers; every size the model reaches is below 2^31.            *)
(***************************************************************************)
EXTENDS Integers, Sequences, FiniteSets, TLC

\* ------------------------------------------------------------------ bounds
NumProducers == 2   \* producer threads
MaxPush      == 2   \* push_sample calls of all producers together
MaxAddrs     == 2   \* candidate addresses getaddrinfo may return
MaxCandidates == 3  \* candidate addresses when setup_socket is studied alone
MaxWire      == 2   \* samples the wire log records before it saturates
MaxBatch     == 2   \* batch length of the encoder specification

\* ------------------------------------------------------------ thread ids
Producers == 1 .. NumProducers
Free      == 0
Disp      == NumProducers + 1
App       == NumProducers + 2

\* ------------------------------------------------------- bytes and uint64
Byte == 0 .. 255

\* x >> bits on uint64_t, for the values below 2^31 the model reaches
Shr(x, bits) == IF bits >= 31 THEN 0 ELSE x \div (2 ^ bits)

\* conversion of a uint64_t to char: the low byte
ToChar(x) == x % 256

\* one byte as a run
B(b) == << b, 1 >>

RECURSIVE RunsLength(_)
RunsLength(runs) ==
    IF runs = << >> THEN 0 ELSE Head(runs)[2] + RunsLength(Tail(runs))

\* std::string::length() of a path
PathLength(path) == RunsLength(path)

\* std::vector<char>::size() of a message
MessageSize(msg) == RunsLength(msg)

\* the object representation of an int (4 bytes, host order: little endian)
IntBytes(ts) == [i \in 1 .. 4 |-> (ts \div (256 ^ (i - 1))) % 256]

Reverse(s) == [i \in 1 .. Len(s) |-> s[Len(s) + 1 - i]]

RECURSIVE Bytes(_)
Bytes(s) == IF s = << >> THEN << >> ELSE << B(Head(s)) >> \o Bytes(Tail(s))

\* ------------------------------------------------------------ build_message
RECURSIVE PayloadSizeFrom(_, _)
PayloadSizeFrom(metrics, acc) ==
    IF metrics = << >> THEN acc
    ELSE PayloadSizeFrom(Tail(metrics), acc + 30 + PathLength(Head(metrics)[1]))

\* a size that starts one byte short
PayloadSizeShort(metrics) == PayloadSizeFrom(metrics, 3)

\* lines 148-152: payload_size = 4 + sum of (30 + path.length())
PayloadSize(metrics) == PayloadSizeFrom(metrics, 4)

\* lines 159-162: the 4 header bytes
Header(payload_size) ==
    << B(ToChar(Shr(payload_size, 32))),
       B(ToChar(Shr(payload_size, 16))),
       B(ToChar(Shr(payload_size, 8))),
       B(ToChar(Shr(payload_size, 0))) >>

\* lines 173-218: the bytes of one sample
EncodeMetric(m) ==
    LET path   == m[1]
        ts     == m[2]
        sample == m[3]
        len    == PathLength(path)
    IN  << B(113), B(0), B(88) >>                     \* BINPUT 0, BINUNICODE
        \o << B(ToChar(Shr(len, 0))), B(ToChar(Shr(len, 8))),
              B(ToChar(Shr(len, 16))), B(ToChar(Shr(len, 32))) >>
        \o path
        \o << B(113), B(1), B(74) >>                  \* BINPUT 1, BININT
        \o Bytes(IntBytes(ts))
        \o << B(71) >>                                \* BINFLOAT
        \o Bytes(Reverse(sample))
        \o << B(134), B(113), B(2), B(134), B(113), B(3), B(97) >>

RECURSIVE EncodeMetrics(_)
EncodeMetrics(metrics) ==
    IF metrics = << >> THEN << >>
    ELSE EncodeMetric(Head(metrics)) \o EncodeMetrics(Tail(metrics))

\* lines 147-226
build_message(metrics) ==
    Header(PayloadSize(metrics))
    \o << B(128), B(2), B(93) >>                      \* PROTO 2, EMPTY LIST
    \o EncodeMetrics(metrics)
    \o << B(46) >>                                    \* STOP

\* ------------------------------------------------------------------ state
VARIABLES
    queue,          \* _queue: the FIFO of metric_t <<path, ts, sample>>
    mutex,          \* _mutex: Free or the id of the thread holding it
    running,        \* _running
    started,        \* start() has been called (the thread exists)
    dpc,            \* the dispatcher thread's position in thread()
    sock,           \* thread()'s local sock
    metrics,        \* thread()'s local metrics (the batch in flight)
    message,        \* thread()'s local message
    rq,             \* index of the requeue loop (line 125)
    ppc,            \* each producer's position in push_sample
    pushed,         \* push_sample calls completed by each producer
    apc,            \* the caller thread's position (idle, in shutdown, returned)
    fds,            \* the socket descriptors the process holds open
    submitted,      \* history: the samples producers enqueued, in enqueue order
    enqLog,         \* history: every push_sample since the last drain, in order
    wire,           \* history: samples of successfully sent batches, in send order
    delivered,      \* history: samples of batches whose send succeeded
    attempted,      \* history: samples of batches handed to send
    stopRequested,  \* history: stop()/shutdown() stored false after start() returned
    preShutdown,    \* history: the samples submitted before shutdown() was called
    atLock,         \* history: the queue when get_metrics took _mutex
    resolved,       \* the answer given to a setup_socket call studied alone
    calls           \* history: the system calls of that setup_socket call

prog == << queue, mutex, running, started, dpc, sock, metrics, message, rq,
           ppc, pushed, apc, fds >>
hist == << submitted, enqLog, wire, delivered, attempted, stopRequested,
           preShutdown, atLock, resolved, calls >>
vars == << prog, hist >>

Range(s) == { s[i] : i \in 1 .. Len(s) }

\* the file descriptor socket() returns (the lowest free one)
SockFd == 3

\* the object representation of the double 1.0 (little endian host)
OneDouble == << 0, 0, 0, 0, 0, 0, 240, 63 >>

\* the path producer p submits: "a.b", "b.b", ...
PathOf(p) == << << 96 + p, 1 >>, << 46, 1 >>, << 98, 1 >> >>

\* the k-th sample of producer p
SampleOf(p, k) == << PathOf(p), k, OneDouble >>

\* --------------------------------------------------------- queue operations
\* lines 62-65, the body under the lock: _queue.emplace(make_tuple(...))
push_sample(q, path, ts, sample) == Append(q, << path, ts, sample >>)

RECURSIVE DrainLoop(_, _)
DrainLoop(q, out) ==
    IF q = << >> THEN << q, out >>
    ELSE DrainLoop(Tail(q), Append(out, Head(q)))

\* a drain that fills the vector from the front (last in, first out)
get_metrics_lifo(q) == << << >>, Reverse(q) >>

\* lines 137-144: move the front of the queue to the back of the vector until
\* the queue is empty; << the queue left, the vector returned >>
get_metrics(q) == DrainLoop(q, << >>)

\* line 230, under the lock
queue_empty(q) == q = << >>

\* ------------------------------------------------------------- setup_socket
Outcome == { "nosocket", "refused", "accepted" }

\* socket() returns the lowest descriptor that is not open
NewFd(open) ==
    IF open = {} THEN SockFd
    ELSE
    CHOOSE n \in SockFd .. SockFd + Cardinality(open) :
        n \notin open /\ \A k \in SockFd .. n - 1 : k \in open

\* a candidate loop that leaves the socket of a refused candidate open
RECURSIVE TryAddrsNoClose(_, _, _, _)
TryAddrsNoClose(addrs, i, open, log) ==
    IF i > Len(addrs) THEN [sock |-> -1, fds |-> open, calls |-> log]
    ELSE IF addrs[i] = "nosocket"
         THEN TryAddrsNoClose(addrs, i + 1, open,
                              Append(log, << "socket", i, -1 >>))
    ELSE LET fd == NewFd(open)
         IN  IF addrs[i] = "accepted"
             THEN [sock |-> fd, fds |-> open \cup { fd },
                   calls |-> log \o << << "socket", i, fd >>,
                                       << "connect", i, 0 >> >>]
             ELSE TryAddrsNoClose(addrs, i + 1, open \cup { fd },
                                  log \o << << "socket", i, fd >>,
                                            << "connect", i, -1 >> >>)

\* lines 82-97: the loop over the candidates, from candidate i on; open is the
\* set of open descriptors, log the system calls made so far
\* << call, candidate, descriptor or result >>
RECURSIVE TryAddrs(_, _, _, _)
TryAddrs(addrs, i, open, log) ==
    IF i > Len(addrs) THEN [sock |-> -1, fds |-> open, calls |-> log]
    ELSE IF addrs[i] = "nosocket"                       \* lines 87-89: continue
         THEN TryAddrs(addrs, i + 1, open, Append(log, << "socket", i, -1 >>))
    ELSE LET fd == NewFd(open)
         IN  IF addrs[i] = "accepted"                   \* lines 91-93: break
             THEN [sock |-> fd, fds |-> open \cup { fd },
                   calls |-> log \o << << "socket", i, fd >>,
                                       << "connect", i, 0 >> >>]
             ELSE TryAddrs(addrs, i + 1, open,           \* lines 95-96: close
                           log \o << << "socket", i, fd >>,
                                     << "connect", i, -1 >>,
                                     << "close", i, fd >> >>)

\* lines 68-102: err is getaddrinfo's failure, addrs what each candidate does,
\* open the descriptors open at the call; the socket returned, the descriptors
\* open at the return and the system calls made
setup_socket(err, addrs, open) ==
    IF err THEN [sock |-> -1, fds |-> open, calls |-> << >>]
    ELSE TryAddrs(addrs, 1, open, << >>)

AddrLists == UNION { [1 .. n -> Outcome] : n \in 0 .. MaxAddrs }

CandidateLists == UNION { [1 .. n -> Outcome] : n \in 0 .. MaxCandidates }

\* --------------------------------------------------------------------- Init
Init ==
    /\ queue = << >>
    /\ mutex = Free
    /\ running \in BOOLEAN          \* std::atomic<bool> _running; is not initialised
    /\ started = FALSE
    /\ dpc = "unstarted"
    /\ sock = -1
    /\ metrics = << >>
    /\ message = << >>
    /\ rq = 0
    /\ ppc = [p \in Producers |-> "idle"]
    /\ pushed = [p \in Producers |-> 0]
    /\ apc = "idle"
    /\ submitted = << >>
    /\ enqLog = << >>
    /\ wire = << >>
    /\ delivered = {}
    /\ attempted = {}
    /\ stopRequested = FALSE
    /\ preShutdown = {}
    /\ fds = {}
    /\ atLock = << >>
    /\ resolved = << >>
    /\ calls = << >>

\* ---------------------------------------------------------------- producers
RECURSIVE Sum(_, _)
Sum(f, n) == IF n = 0 THEN 0 ELSE f[n] + Sum(f, n - 1)

\* the push_sample calls producers have made so far, the ones in progress included
Calls == Sum(pushed, NumProducers)
           + Cardinality({ p \in Producers : ppc[p] = "locked" })

\* a push_sample that does not wait for _mutex
PushWithoutLock(p) ==
    /\ ppc[p] = "idle"
    /\ Calls < MaxPush
    /\ ppc' = [ppc EXCEPT ![p] = "locked"]
    /\ UNCHANGED << queue, mutex, running, started, dpc, sock, metrics, message,
                    rq, pushed, apc, hist, fds >>

\* push_sample, line 63: lock_guard takes _mutex
PushLock(p) ==
    /\ ppc[p] = "idle"
    /\ apc # "destroyed"             \* callers do not use a destroyed object
    /\ Calls < MaxPush
    /\ mutex = Free
    /\ mutex' = p
    /\ ppc' = [ppc EXCEPT ![p] = "locked"]
    /\ UNCHANGED << queue, running, started, dpc, sock, metrics, message, rq,
                    pushed, apc, hist,
                    fds >>

\* push_sample, lines 64-65: emplace, then the lock_guard releases _mutex
PushBody(p) ==
    /\ ppc[p] = "locked"
    /\ LET s == SampleOf(p, pushed[p] + 1)
       IN  /\ queue' = push_sample(queue, s[1], s[2], s[3])
           /\ submitted' = Append(submitted, s)
           /\ enqLog' = Append(enqLog, s)
    /\ mutex' = Free
    /\ ppc' = [ppc EXCEPT ![p] = "idle"]
    /\ pushed' = [pushed EXCEPT ![p] = @ + 1]
    /\ UNCHANGED << running, started, dpc, sock, metrics, message, rq, apc,
                    wire, delivered, attempted, stopRequested, preShutdown,
                    fds, atLock, resolved, calls >>

\* --------------------------------------------------------------- dispatcher
\* the wire log records at most MaxWire samples
Record(log, batch) == SubSeq(log \o batch, 1, IF Len(log \o batch) < MaxWire
                                                 THEN Len(log \o batch) ELSE MaxWire)

\* thread(), lines 105-108: sock = -1; _running = true
DInit ==
    /\ dpc = "init"
    /\ sock' = -1
    /\ running' = TRUE
    /\ dpc' = "loop"
    /\ UNCHANGED << queue, mutex, started, metrics, message, rq, ppc, pushed,
                    apc, hist,
                    fds >>

\* a loop that calls setup_socket in every cycle, connected or not
DLoopAlwaysConnects ==
    /\ dpc = "loop"
    /\ dpc' = IF ~running THEN "exited" ELSE "connect"
    /\ UNCHANGED << queue, mutex, running, started, sock, metrics, message, rq,
                    ppc, pushed, apc, hist, fds >>

\* line 110: while (_running.load()); line 111: if (sock < 0)
DLoop ==
    /\ dpc = "loop"
    /\ dpc' = IF ~running THEN "exited"
              ELSE IF sock < 0 THEN "connect" ELSE "check"
    /\ UNCHANGED << queue, mutex, running, started, sock, metrics, message, rq,
                    ppc, pushed, apc, hist,
                    fds >>

\* a cycle that goes on to the queue test whether or not it has a socket
ConnectThenCheck(r) ==
    /\ dpc = "connect"
    /\ sock' = r.sock
    /\ fds' = r.fds
    /\ dpc' = "check"
    /\ UNCHANGED << queue, mutex, running, started, metrics, message, rq, ppc,
                    pushed, apc, submitted, enqLog, wire, delivered, attempted,
                    stopRequested, preShutdown, atLock, resolved >>

\* line 112 with the result r of setup_socket; line 115: sock >= 0 and ...
\* short-circuits
Connect(r) ==
    /\ dpc = "connect"
    /\ sock' = r.sock
    /\ fds' = r.fds
    /\ dpc' = IF r.sock >= 0 THEN "check" ELSE "sleep"
    /\ UNCHANGED << queue, mutex, running, started, metrics, message, rq, ppc,
                    pushed, apc, submitted, enqLog, wire, delivered, attempted,
                    stopRequested, preShutdown, atLock, resolved >>

\* the socket setup_socket returns and the descriptors it leaves open
Returned(r) == << r.sock, r.fds >>

\* line 112: sock = setup_socket(), whatever the resolver and the candidates
\* answer
DConnect ==
    /\ dpc = "connect"
    /\ \E r \in { Returned(setup_socket(err, addrs, fds)) :
                    err \in BOOLEAN, addrs \in AddrLists } :
          Connect([sock |-> r[1], fds |-> r[2]])
    /\ UNCHANGED calls

\* line 115, queue_empty() line 229: lock_guard takes _mutex
DCheckLock ==
    /\ dpc = "check"
    /\ mutex = Free
    /\ mutex' = Disp
    /\ dpc' = "check_locked"
    /\ UNCHANGED << queue, running, started, sock, metrics, message, rq, ppc,
                    pushed, apc, hist,
                    fds >>

\* a cycle that drains whether or not the queue is empty
DCheckBodyAlwaysDrains ==
    /\ dpc = "check_locked"
    /\ mutex' = Free
    /\ dpc' = "drain"
    /\ UNCHANGED << queue, running, started, sock, metrics, message, rq, ppc,
                    pushed, apc, hist, fds >>

\* line 230: return _queue.empty(), releasing _mutex; line 115 branches on it
DCheckBody ==
    /\ dpc = "check_locked"
    /\ mutex' = Free
    /\ dpc' = IF queue_empty(queue) THEN "sleep" ELSE "drain"
    /\ UNCHANGED << queue, running, started, sock, metrics, message, rq, ppc,
                    pushed, apc, hist,
                    fds >>

\* line 116, get_metrics() line 136: unique_lock takes _mutex
DDrainLock ==
    /\ dpc = "drain"
    /\ mutex = Free
    /\ mutex' = Disp
    /\ dpc' = "drain_locked"
    /\ atLock' = queue
    /\ UNCHANGED << queue, running, started, sock, metrics, message, rq, ppc,
                    pushed, apc, fds, submitted, enqLog, wire, delivered,
                    attempted, stopRequested, preShutdown, resolved, calls >>

\* a drain that returns with _mutex still held
DDrainBodyKeepsLock ==
    /\ dpc = "drain_locked"
    /\ metrics' = get_metrics(queue)[2]
    /\ queue' = get_metrics(queue)[1]
    /\ mutex' = mutex
    /\ dpc' = "build"
    /\ enqLog' = << >>
    /\ atLock' = << >>
    /\ UNCHANGED << running, started, sock, message, rq, ppc, pushed, apc,
                    submitted, wire, delivered, attempted, stopRequested,
                    preShutdown,
                    fds, resolved, calls >>

\* lines 137-144: the drain loop and the return, releasing _mutex
DDrainBody ==
    /\ dpc = "drain_locked"
    /\ metrics' = get_metrics(queue)[2]
    /\ queue' = get_metrics(queue)[1]
    /\ mutex' = Free
    /\ dpc' = "build"
    /\ enqLog' = << >>
    /\ atLock' = << >>
    /\ UNCHANGED << running, started, sock, message, rq, ppc, pushed, apc,
                    submitted, wire, delivered, attempted, stopRequested,
                    preShutdown,
                    fds, resolved, calls >>

\* line 117: message = build_message(metrics); line 223: the assert aborts
\* the process when the size is not the precomputed one
DBuild ==
    /\ dpc = "build"
    /\ LET m == build_message(metrics)
       IN  /\ message' = m
           /\ dpc' = IF MessageSize(m) = 4 + PayloadSize(metrics)
                     THEN "send" ELSE "aborted"
    /\ UNCHANGED << queue, mutex, running, started, sock, metrics, rq, ppc,
                    pushed, apc, hist, fds >>

\* a failed send that forgets the socket without closing it
DSendFailNoClose ==
    /\ dpc = "send"
    /\ sock' = -1
    /\ dpc' = "sleep"
    /\ metrics' = << >>
    /\ message' = << >>
    /\ attempted' = attempted \cup Range(metrics)
    /\ UNCHANGED << queue, mutex, running, started, rq, ppc, pushed, apc, fds,
                    submitted, enqLog, wire, delivered, stopRequested,
                    preShutdown, atLock, resolved, calls >>

\* lines 119-122: send() < 0: perror, close(sock), sock = -1; the batch is
\* destroyed at the end of the block
DSendFail ==
    /\ dpc = "send"
    /\ fds' = fds \ { sock }
    /\ sock' = -1
    /\ dpc' = "sleep"
    /\ metrics' = << >>
    /\ message' = << >>
    /\ attempted' = attempted \cup Range(metrics)
    /\ UNCHANGED << queue, mutex, running, started, rq, ppc, pushed, apc,
                    submitted, enqLog, wire, delivered, stopRequested,
                    preShutdown, atLock, resolved, calls >>

\* lines 119, 123-125: send() >= 0: the else branch enters the loop over metrics
DSendOk ==
    /\ dpc = "send"
    /\ dpc' = IF metrics = << >> THEN "sleep" ELSE "requeue"
    /\ rq' = IF metrics = << >> THEN 0 ELSE 1
    /\ message' = IF metrics = << >> THEN << >> ELSE message
    /\ attempted' = attempted \cup Range(metrics)
    /\ delivered' = delivered \cup Range(metrics)
    /\ wire' = Record(wire, metrics)
    /\ UNCHANGED << queue, mutex, running, started, sock, metrics, ppc, pushed,
                    apc, submitted, enqLog, stopRequested, preShutdown,
                    fds, atLock, resolved, calls >>

\* line 126, push_sample line 63: lock_guard takes _mutex
DRequeueLock ==
    /\ dpc = "requeue"
    /\ mutex = Free
    /\ mutex' = Disp
    /\ dpc' = "requeue_locked"
    /\ UNCHANGED << queue, running, started, sock, metrics, message, rq, ppc,
                    pushed, apc, hist,
                    fds >>

\* line 126, push_sample lines 64-65, and the loop's step (line 125); after the
\* last sample the block ends and the batch is destroyed
DRequeueBody ==
    /\ dpc = "requeue_locked"
    /\ queue' = push_sample(queue, metrics[rq][1], metrics[rq][2], metrics[rq][3])
    /\ enqLog' = Append(enqLog, metrics[rq])
    /\ mutex' = Free
    /\ IF rq < Len(metrics)
       THEN /\ rq' = rq + 1
            /\ dpc' = "requeue"
            /\ UNCHANGED << metrics, message,
                    fds, atLock, resolved, calls >>
       ELSE /\ rq' = 0
            /\ dpc' = "sleep"
            /\ metrics' = << >>
            /\ message' = << >>
    /\ UNCHANGED << running, started, sock, ppc, pushed, apc, submitted, wire,
                    delivered, attempted, stopRequested, preShutdown,
                    fds, atLock, resolved, calls >>

\* line 131: sleep_for(sleep), then back to the loop condition
DSleep ==
    /\ dpc = "sleep"
    /\ dpc' = "loop"
    /\ UNCHANGED << queue, mutex, running, started, sock, metrics, message, rq,
                    ppc, pushed, apc, submitted, enqLog, wire, delivered,
                    attempted, stopRequested, preShutdown,
                    fds, atLock, resolved, calls >>

Dispatcher ==
    \/ DInit \/ DLoop \/ DConnect \/ DCheckLock \/ DCheckBody \/ DDrainLock
    \/ DDrainBody \/ DBuild \/ DSendFail \/ DSendOk \/ DRequeueLock
    \/ DRequeueBody \/ DSleep

\* ------------------------------------------------------------------- caller
\* start(), lines 38-41: the thread is created and detached
Start ==
    /\ apc = "idle"
    /\ ~started
    /\ started' = TRUE
    /\ dpc' = "init"
    /\ UNCHANGED << queue, mutex, running, sock, metrics, message, rq, ppc,
                    pushed, apc, hist,
                    fds >>

\* a stop() that also empties the queue
StopClearsQueue ==
    /\ apc = "idle"
    /\ running' = FALSE
    /\ queue' = << >>
    /\ stopRequested' = (stopRequested \/ started)
    /\ UNCHANGED << mutex, started, dpc, sock, metrics, message, rq, ppc,
                    pushed, apc, submitted, enqLog, wire, delivered, attempted,
                    preShutdown,
                    fds, atLock, resolved, calls >>

\* stop(), lines 43-45: _running = false
Stop ==
    /\ apc = "idle"
    /\ running' = FALSE
    /\ stopRequested' = (stopRequested \/ started)
    /\ UNCHANGED << queue, mutex, started, dpc, sock, metrics, message, rq, ppc,
                    pushed, apc, submitted, enqLog, wire, delivered, attempted,
                    preShutdown,
                    fds, atLock, resolved, calls >>

\* shutdown() is called
ShutdownCall ==
    /\ apc = "idle"
    /\ apc' = "sh_poll"
    /\ preShutdown' = Range(submitted)
    /\ UNCHANGED << queue, mutex, running, started, dpc, sock, metrics, message,
                    rq, ppc, pushed, submitted, enqLog, wire, delivered,
                    attempted, stopRequested,
                    fds, atLock, resolved, calls >>

\* shutdown(), line 48, queue_empty() line 229: lock_guard takes _mutex
ShPollLock ==
    /\ apc = "sh_poll"
    /\ mutex = Free
    /\ mutex' = App
    /\ apc' = "sh_locked"
    /\ UNCHANGED << queue, running, started, dpc, sock, metrics, message, rq,
                    ppc, pushed, hist,
                    fds >>

\* line 230 releasing _mutex; lines 48-49: not empty: sleep 100 ms and poll again
ShPollBody ==
    /\ apc = "sh_locked"
    /\ mutex' = Free
    /\ apc' = IF queue_empty(queue) THEN "sh_store" ELSE "sh_poll"
    /\ UNCHANGED << queue, running, started, dpc, sock, metrics, message, rq,
                    ppc, pushed, hist,
                    fds >>

\* shutdown(), line 52: _running = false, and the return
ShStore ==
    /\ apc = "sh_store"
    /\ running' = FALSE
    /\ apc' = "returned"
    /\ stopRequested' = (stopRequested \/ started)
    /\ UNCHANGED << queue, mutex, started, dpc, sock, metrics, message, rq, ppc,
                    pushed, submitted, enqLog, wire, delivered, attempted,
                    preShutdown,
                    fds, atLock, resolved, calls >>

Caller == Start \/ Stop \/ ShutdownCall \/ ShPollLock \/ ShPollBody \/ ShStore

Producer == \E p \in Producers : PushLock(p) \/ PushBody(p)

Next == Producer \/ Dispatcher \/ Caller

Spec == Init /\ [][Next]_vars

\* ------------------------------------------------------ reachable collector
\* line 112 when the collector is reachable: setup_socket returns a socket
DConnectOk == DConnect /\ sock' >= 0

\* the dispatcher while every connect and every send succeeds
DispatcherOk ==
    \/ DInit \/ DLoop \/ DConnectOk \/ DCheckLock \/ DCheckBody \/ DDrainLock
    \/ DDrainBody \/ DBuild \/ DSendOk \/ DRequeueLock \/ DRequeueBody
    \/ DSleep

\* a caller inside shutdown()
InShutdown == ShPollLock \/ ShPollBody \/ ShStore

\* a caller that starts the dispatcher and calls shutdown(), never stop()
NextReach == Producer \/ DispatcherOk \/ Start \/ ShutdownCall \/ InShutdown

\* the scheduler runs every thread: the dispatcher and a caller inside
\* shutdown() keep taking steps and neither waits for _mutex forever, and a
\* producer inside push_sample leaves it
ReachSpec ==
    /\ Init
    /\ [][NextReach]_vars
    /\ SF_vars(DispatcherOk)
    /\ SF_vars(InShutdown)
    /\ \A p \in Producers : WF_vars(PushBody(p))

\* ------------------------------------------------------------ encoder alone
\* paths: "", "a.b", and runs of 'x' that bring a one-sample payload to
\* 2^16, 2^24 and 2^24 + 2^16 + 256 bytes
EncPaths ==
    { << >>,
      << << 97, 1 >>, << 46, 1 >>, << 98, 1 >> >>,
      << << 120, 2 ^ 16 - 34 >> >>,
      << << 120, 2 ^ 24 - 34 >> >>,
      << << 120, 2 ^ 24 + 2 ^ 16 + 256 - 34 >> >> }

\* the object representation of the double 2.0 (little endian host)
TwoDouble == << 0, 0, 0, 0, 0, 0, 0, 64 >>

EncSamples == EncPaths \X { 100, -1 } \X { OneDouble, TwoDouble }

Batches == UNION { [1 .. n -> EncSamples] : n \in 1 .. MaxBatch }

\* the dispatcher holds a drained batch and is about to encode it (line 117)
EncInit ==
    /\ queue = << >>
    /\ mutex = Free
    /\ running = TRUE
    /\ started = TRUE
    /\ dpc = "build"
    /\ sock = SockFd
    /\ metrics \in Batches
    /\ message = << >>
    /\ rq = 0
    /\ ppc = [p \in Producers |-> "idle"]
    /\ pushed = [p \in Producers |-> 0]
    /\ apc = "idle"
    /\ submitted = << >>
    /\ enqLog = << >>
    /\ wire = << >>
    /\ delivered = {}
    /\ attempted = {}
    /\ stopRequested = FALSE
    /\ preShutdown = {}
    /\ fds = { SockFd }
    /\ atLock = << >>
    /\ resolved = << >>
    /\ calls = << >>

EncNext == DBuild

EncSpec == EncInit /\ [][EncNext]_vars

\* ------------------------------------------------------------------- claims
RECURSIVE Count(_, _)
Count(s, x) ==
    IF s = << >> THEN 0
    ELSE (IF Head(s) = x THEN 1 ELSE 0) + Count(Tail(s), x)

IsPrefix(a, b) == Len(a) <= Len(b) /\ a = SubSeq(b, 1, Len(a))

\* the batch drained and not yet handed to send
InFlight == IF dpc \in { "build", "send" } THEN metrics ELSE << >>

\* C1: when a cycle whose send failed (the socket is closed, sock = -1) leaves
\* the send for the sleep, every sample of its batch is back in the queue
C1_FailedBatchRequeued ==
    [][(dpc = "send" /\ dpc' = "sleep" /\ sock' < 0)
          => \A s \in Range(metrics) : s \in Range(queue')]_vars

\* C2: a sample of a successfully sent batch is never put back into the queue
C2_SuccessDiscards == \A s \in delivered : s \notin Range(queue)

\* the samples sent, or dropped with a batch whose send failed
SentOrDropped == attempted

\* C3: every submitted sample is in exactly one of: the queue, the batch in
\* flight, sent or dropped; none is lost and none is duplicated
C3_ExactlyOnePlace ==
    \A s \in Range(submitted) :
        Count(queue, s) + Count(InFlight, s)
            + (IF s \in SentOrDropped THEN 1 ELSE 0) = 1

\* C4: once stop() or shutdown() has stored the stop flag after start()
\* returned, the dispatcher's next evaluation of the loop condition exits the
\* loop: it starts no later cycle
C4_StopExits ==
    [][(stopRequested /\ dpc = "loop" /\ dpc' # "loop") => dpc' = "exited"]_vars

\* C5: with the dispatcher started and every connect and send succeeding, a
\* shutdown() call eventually returns
C5_ShutdownReturns == (apc = "sh_poll" /\ started) ~> (apc = "returned")

\* C6 (every connect and send succeeding): when shutdown() has returned, every
\* sample submitted before the call was in a batch handed to send
C6_AttemptedBeforeReturn ==
    apc = "returned" => preShutdown \subseteq attempted

\* the producers that have called push_sample
Active == { p \in Producers : pushed[p] > 0 \/ ppc[p] = "locked" }

\* C7 (every connect and send succeeding): with a single producer, the samples
\* written so far are a prefix of the samples in submission order
C7_WireInSubmissionOrder ==
    Cardinality(Active) <= 1 => IsPrefix(wire, submitted)

\* C8: a drain returns exactly the samples enqueued since the queue was last
\* empty, in the order they were enqueued, and leaves the queue empty
C8_DrainReturnsEnqueued ==
    [][(dpc = "drain_locked" /\ dpc' = "build")
          => (metrics' = enqLog /\ queue' = << >>)]_vars

\* a drain has returned a batch of at least two samples
C8_Witness == dpc = "build" /\ Len(metrics) >= 2 /\ queue = << >>

\* C9: the dispatcher holds the queue mutex only inside queue_empty,
\* get_metrics and push_sample: not while it is disconnected, connects,
\* encodes, sends or sleeps, so push_sample never waits on the transport
C9_NoLockInTransport ==
    dpc \notin { "check_locked", "drain_locked", "requeue_locked" }
        => mutex # Disp

\* a producer is inside push_sample, holding the mutex, while the dispatcher
\* is in send
C9_Witness == dpc = "send" /\ \E p \in Producers : mutex = p /\ ppc[p] = "locked"

\* the length a receiver reads from the 4 header bytes, big endian
HeaderLength(msg) ==
    msg[1][1] * 2 ^ 24 + msg[2][1] * 2 ^ 16 + msg[3][1] * 2 ^ 8 + msg[4][1]

\* the bytes that follow the header
PayloadBytes(msg) == MessageSize(SubSeq(msg, 5, Len(msg)))

\* C10: the length read from the header of an encoded message equals the
\* number of payload bytes that follow the header
C10_HeaderLengthExact ==
    dpc = "send" => HeaderLength(message) = PayloadBytes(message)

\* ------------------------------------------------------------- destruction
\* ~GraphitePusher(), lines 30-32: stop(), then the members are destroyed; the
\* owner destroys the object when no call on it is in progress
Destroy ==
    /\ apc \in { "idle", "returned" }
    /\ \A p \in Producers : ppc[p] = "idle"
    /\ running' = FALSE
    /\ apc' = "destroyed"
    /\ stopRequested' = (stopRequested \/ started)
    /\ UNCHANGED << queue, mutex, started, dpc, sock, metrics, message, rq, ppc,
                    pushed, fds, submitted, enqLog, wire, delivered, attempted,
                    preShutdown, atLock, resolved, calls >>

\* line 110 on a destroyed object: the value _running.load() yields is
\* undefined, the loop may go on or end
DLoopDangling ==
    /\ dpc = "loop"
    /\ apc = "destroyed"
    /\ dpc' \in { "exited", IF sock < 0 THEN "connect" ELSE "check" }
    /\ UNCHANGED << queue, mutex, running, started, sock, metrics, message, rq,
                    ppc, pushed, apc, hist, fds >>

\* lines 108-126 on a destroyed object: a step that uses _running, _host,
\* _mutex or _queue may also end the process
DCrash ==
    /\ apc = "destroyed"
    /\ dpc \in { "init", "loop", "connect", "check", "check_locked", "drain",
                  "drain_locked", "requeue", "requeue_locked" }
    /\ dpc' = "crashed"
    /\ UNCHANGED << queue, mutex, running, started, sock, metrics, message, rq,
                    ppc, pushed, apc, hist, fds >>

\* the pusher over its whole life: on a destroyed object the detached thread
\* goes on as programmed over the memory left behind, reads an arbitrary stop
\* flag, or crashes
LifeNext == Next \/ Destroy \/ DLoopDangling \/ DCrash

LifeSpec == Init /\ [][LifeNext]_vars

\* ------------------------------------------------------ setup_socket alone
\* thread() is about to call setup_socket; resolved is what getaddrinfo and
\* the candidates will answer: << err, addrs >>
SockInit ==
    /\ queue = << >>
    /\ mutex = Free
    /\ running = TRUE
    /\ started = TRUE
    /\ dpc = "connect"
    /\ sock = -1
    /\ metrics = << >>
    /\ message = << >>
    /\ rq = 0
    /\ ppc = [p \in Producers |-> "idle"]
    /\ pushed = [p \in Producers |-> 0]
    /\ apc = "idle"
    /\ submitted = << >>
    /\ enqLog = << >>
    /\ wire = << >>
    /\ delivered = {}
    /\ attempted = {}
    /\ stopRequested = FALSE
    /\ preShutdown = {}
    /\ fds = {}
    /\ atLock = << >>
    /\ resolved \in BOOLEAN \X CandidateLists
    /\ calls = << >>

\* line 112: sock = setup_socket() with the answers of resolved
DConnectResolved ==
    LET r == setup_socket(resolved[1], resolved[2], fds)
    IN  Connect(r) /\ calls' = r.calls

SockNext == DConnectResolved

SockSpec == SockInit /\ [][SockNext]_vars

\* ------------------------------------------------ a reader of the payload
\* the first n bytes of a byte string and the rest, << >> when it is shorter
RECURSIVE Take(_, _)
Take(runs, n) ==
    IF n = 0 THEN << << >>, runs >>
    ELSE IF runs = << >> THEN << >>
    ELSE LET h == Head(runs)
         IN  IF h[2] <= n
             THEN LET r == Take(Tail(runs), n - h[2])
                  IN  IF r = << >> THEN << >>
                      ELSE << << h >> \o r[1], r[2] >>
             ELSE << << << h[1], n >> >>,
                     << << h[1], h[2] - n >> >> \o Tail(runs) >>

\* a short byte string, byte by byte
RECURSIVE Expand(_)
Expand(runs) ==
    IF runs = << >> THEN << >>
    ELSE [i \in 1 .. Head(runs)[2] |-> Head(runs)[1]] \o Expand(Tail(runs))

\* 4 bytes, least significant first, as an unsigned length (below 2^31)
LengthLE(b) == b[1] + b[2] * 2 ^ 8 + b[3] * 2 ^ 16 + b[4] * 2 ^ 24

\* 4 bytes, least significant first, as a signed 32-bit integer
IntLE(b) ==
    b[1] + b[2] * 2 ^ 8 + b[3] * 2 ^ 16
        + (IF b[4] >= 128 THEN b[4] - 256 ELSE b[4]) * 2 ^ 24

\* what the reader yields for a payload it cannot parse: no sample has this shape
Bad == << << >> >>

\* the samples a pickle reader finds after PROTO 2, EMPTY LIST: per sample
\* BINPUT 0, BINUNICODE, length, path, BINPUT 1, BININT, BINFLOAT, TUPLE2,
\* BINPUT 2, TUPLE2, BINPUT 3, APPEND; then STOP
RECURSIVE DecodeItems(_, _)
DecodeItems(runs, acc) ==
    IF runs = << B(46) >> THEN acc
    ELSE LET t1 == Take(runs, 7)
         IN  IF t1 = << >> THEN Bad
             ELSE LET e1 == Expand(t1[1])
                  IN  IF SubSeq(e1, 1, 3) # << 113, 0, 88 >> \/ e1[7] >= 128
                      THEN Bad
                      ELSE LET t2 == Take(t1[2], LengthLE(SubSeq(e1, 4, 7)))
                           IN  IF t2 = << >> THEN Bad
                               ELSE LET t3 == Take(t2[2], 23)
                                    IN  IF t3 = << >> THEN Bad
                                        ELSE LET e3 == Expand(t3[1])
                                             IN  IF \/ SubSeq(e3, 1, 3) # << 113, 1, 74 >>
                                                    \/ e3[8] # 71
                                                    \/ SubSeq(e3, 17, 23)
                                                         # << 134, 113, 2, 134, 113, 3, 97 >>
                                                 THEN Bad
                                                 ELSE DecodeItems(t3[2],
                                                        Append(acc,
                                                          << t2[1],
                                                             IntLE(SubSeq(e3, 4, 7)),
                                                             Reverse(SubSeq(e3, 9, 16)) >>))

\* the samples read from a message: the header is skipped
Decode(msg) ==
    IF Len(msg) < 8 \/ SubSeq(msg, 5, 7) # << B(128), B(2), B(93) >> THEN Bad
    ELSE DecodeItems(SubSeq(msg, 8, Len(msg)), << >>)

\* C11: decoding the payload of an encoded batch yields the batch: the same
\* (path, timestamp, value) entries in the same order
C11_RoundTrip == dpc = "send" => Decode(message) = metrics

\* C12: stop() changes the stop flag and nothing else of the pusher, the queue
\* in particular; once the dispatcher loop has exited, the samples in the queue
\* stay there and nothing more is sent
C12_StopLeavesQueue ==
    [][ /\ (apc = "idle" /\ apc' = "idle" /\ dpc' = dpc /\ ppc' = ppc)
            => UNCHANGED << queue, mutex, started, sock, metrics, message, rq,
                            pushed, submitted, wire, delivered, attempted >>
        /\ dpc = "exited"
            => /\ dpc' = "exited"
               /\ IsPrefix(queue, queue')
               /\ UNCHANGED << wire, delivered, attempted, sock >> ]_vars

\* stop() was called with samples queued and the loop has exited
C12_Witness == dpc = "exited" /\ stopRequested /\ ~running /\ queue # << >>

\* C13: the connection changes state in three places only. A failed write
\* closes the socket and leaves sock = -1; a successful write keeps the socket;
\* setup_socket is called only when disconnected (so a connected dispatcher
\* reuses its socket in the next cycle and a disconnected one reconnects) and
\* leaves either a connected socket or sock = -1 with nothing open
C13_ConnectionLifecycle ==
    [][ /\ (dpc = "send" /\ dpc' = "sleep")
            => (sock >= 0 /\ sock' = -1 /\ sock \notin fds')
        /\ (dpc = "send" /\ dpc' = "requeue")
            => (sock >= 0 /\ sock' = sock /\ sock \in fds')
        /\ (dpc = "loop" /\ dpc' # "loop" /\ running)
            => dpc' = (IF sock < 0 THEN "connect" ELSE "check")
        /\ (dpc = "connect" /\ dpc' # "connect")
            => /\ sock < 0
               /\ sock' >= 0 => (dpc' = "check" /\ sock' \in fds')
               /\ sock' < 0 => (dpc' = "sleep" /\ fds' = fds)
        /\ (dpc' = dpc \/ dpc \notin { "send", "connect" })
            => UNCHANGED << sock, fds >> ]_vars

\* a write failed and a later cycle has reconnected
C13_Witness ==
    /\ dpc = "check" /\ sock >= 0 /\ sock \in fds
    /\ attempted # {} /\ delivered = {}

\* C14: a cycle whose connect fails goes straight to the sleep and takes
\* nothing from the queue; in every step that starts and ends without a
\* connection the queue only grows; and as long as no batch has been drained
\* the queue holds exactly the samples submitted, in submission order
C14_DisconnectedKeepsQueue ==
    [][ /\ (dpc = "connect" /\ dpc' # "connect" /\ sock' < 0)
            => (dpc' = "sleep" /\ UNCHANGED << queue, metrics, attempted >>)
        /\ (sock < 0 /\ sock' < 0)
            => (IsPrefix(queue, queue') /\ UNCHANGED << metrics, attempted, wire >>)
        /\ (attempted' = {} /\ metrics' = << >>) => queue' = submitted' ]_vars

\* the connect has failed, nothing was ever sent, and two samples wait
C14_Witness ==
    /\ dpc = "sleep" /\ sock < 0 /\ attempted = {}
    /\ Len(queue) = 2 /\ queue = submitted

\* the threads inside a critical section of _mutex
InSection ==
    { p \in Producers : ppc[p] = "locked" }
        \cup (IF dpc \in { "check_locked", "drain_locked", "requeue_locked" }
              THEN { Disp } ELSE {})
        \cup (IF apc = "sh_locked" THEN { App } ELSE {})

\* C15: get_metrics and push_sample exclude each other: at most one thread is
\* inside a critical section, and it holds _mutex. The batch get_metrics
\* returns is the queue as it was when the lock was taken, the queue is empty
\* when the lock is released, and a push_sample step appends its whole sample
\* to the queue without touching a drained batch
C15_DrainAtomic ==
    [][ /\ Cardinality(InSection) <= 1
        /\ \A t \in InSection : mutex = t
        /\ (dpc = "drain_locked" /\ dpc' = "build")
            => (metrics' = atLock /\ queue' = << >> /\ mutex' = Free)
        /\ \A p \in Producers :
              (ppc[p] = "locked" /\ ppc'[p] = "idle")
                  => (queue' = Append(queue, SampleOf(p, pushed'[p]))
                      /\ metrics' = metrics) ]_vars

\* a producer waits for _mutex while the dispatcher drains a non-empty queue
C15_Witness ==
    /\ dpc = "drain_locked" /\ mutex = Disp /\ queue # << >>
    /\ \E p \in Producers : ppc[p] = "idle" /\ pushed[p] = 0 /\ Calls < MaxPush

\* C16: the message build_message returns has 4 + payload_size bytes, where
\* payload_size = 4 + the sum over the samples of 30 + path length was computed
\* before anything was emitted: the assert of line 223 never fails
C16_SizeAsPrecomputed ==
    /\ dpc # "aborted"
    /\ dpc = "send" => MessageSize(message) = 4 + PayloadSize(metrics)

\* a batch of two samples, one with an empty path and one of more than 2^24
\* bytes, has been encoded
C16_Witness ==
    /\ dpc = "send" /\ Len(metrics) = 2
    /\ PathLength(metrics[1][1]) = 0
    /\ MessageSize(message) > 2 ^ 24

\* the descriptors a sequence of system calls leaves open
OpenAfter(log) ==
    { log[k][3] : k \in { k \in 1 .. Len(log) :
                            /\ log[k][1] = "socket" /\ log[k][3] >= 0
                            /\ ~ \E m \in k + 1 .. Len(log) :
                                    log[m] = << "close", log[k][2], log[k][3] >> } }

\* the candidates a sequence of system calls opened a socket for, in order
RECURSIVE SocketCandidates(_)
SocketCandidates(log) ==
    IF log = << >> THEN << >>
    ELSE (IF Head(log)[1] = "socket" THEN << Head(log)[2] >> ELSE << >>)
             \o SocketCandidates(Tail(log))

\* the first candidate that accepts, 0 when none does
FirstAccepting(addrs) ==
    IF \E i \in 1 .. Len(addrs) : addrs[i] = "accepted"
    THEN CHOOSE i \in 1 .. Len(addrs) :
             /\ addrs[i] = "accepted"
             /\ \A k \in 1 .. i - 1 : addrs[k] # "accepted"
    ELSE 0

\* C17: setup_socket makes no system call and returns -1 when the resolution
\* fails. Otherwise it tries the candidates in the resolver's order up to the
\* first that accepts and no further, no socket is open whenever the next
\* candidate's socket is created, and it returns the socket connected to the
\* first accepting candidate as the only open one, or -1 with nothing open
\* when no candidate accepts
C17_FirstAcceptingCandidate ==
    dpc # "connect" =>
        LET err   == resolved[1]
            addrs == resolved[2]
            first == FirstAccepting(addrs)
            last  == IF first = 0 THEN Len(addrs) ELSE first
        IN  /\ err => (calls = << >> /\ sock = -1 /\ fds = {})
            /\ ~err =>
                  /\ SocketCandidates(calls) = [i \in 1 .. last |-> i]
                  /\ \A j \in 1 .. Len(calls) :
                        calls[j][1] = "socket"
                            => OpenAfter(SubSeq(calls, 1, j - 1)) = {}
                  /\ first > 0 =>
                        /\ sock >= 0 /\ fds = { sock }
                        /\ OpenAfter(calls) = { sock }
                        /\ calls[Len(calls)] = << "connect", first, 0 >>
                        /\ calls[Len(calls) - 1] = << "socket", first, sock >>
                  /\ first = 0 =>
                        (sock = -1 /\ fds = {} /\ OpenAfter(calls) = {})

\* the first candidate refused, the second accepted, a third that would have
\* accepted was not tried
C17_Witness ==
    /\ dpc = "check" /\ sock >= 0
    /\ resolved = << FALSE, << "refused", "accepted", "accepted" >> >>
    /\ Len(calls) = 5

\* C18: the dispatcher holds at most one open socket, the one in sock;
\* without a socket in sock nothing is open (a socket is closed before it is
\* replaced), and setup_socket is called only while sock < 0
C18_AtMostOneConnection ==
    /\ Cardinality(fds) <= 1
    /\ sock >= 0 => fds = { sock }
    /\ sock < 0 => fds = {}
    /\ dpc = "connect" => sock < 0

\* the dispatcher is connected again after a send failed
C18_Witness ==
    /\ dpc = "send" /\ fds = { sock }
    /\ attempted # {} /\ delivered = {}

\* C19: the batch the dispatcher encodes, sends and loops over is never empty,
\* although the emptiness test and the drain take _mutex separately
C19_BatchNonEmpty ==
    dpc \in { "build", "send", "requeue", "requeue_locked" } => metrics # << >>

\* a batch holding the samples of two producers is being sent
C19_Witness ==
    /\ dpc = "send" /\ Len(metrics) = 2 /\ message # << >>
    /\ metrics[1][1] # metrics[2][1]

\* C20: when the destructor has completed, the dispatcher thread has exited
\* (or was never started), so it takes no step on the destroyed object
C20_DispatcherGoneAtDestruction ==
    apc = "destroyed" => dpc \in { "unstarted", "exited" }

====
